---- MODULE Spec2Model ----
(***************************************************************************)
(* dqcheck: the fluent DataValidator (validators.py) and the DataProfiler  *)
(* (profiler.py) over an in-memory table.                                  *)
(*                                                                         *)
(* A table is a function from column names to columns; a column is a       *)
(* record [dtype, vals] whose vals is the ordered sequence of its cells.   *)
(* A cell is a record [t, num, str]: t = "num" carries an integer in num,  *)
(* t = "str" a text (a sequence of characters) in str, t = "ts" an opaque  *)
(* timestamp, and t = "na" is the missing marker (NaN / None).  Row        *)
(* identifiers are those of the default RangeIndex: row i of vals has      *)
(* identifier i - 1.                                                       *)
(***************************************************************************)
EXTENDS Integers, Sequences, FiniteSets, TLC

VARIABLES
    df,              \* DataValidator.df / DataProfiler.df: the caller's table
    checks,          \* DataValidator._checks: the queue of registered rules
    current_column,  \* DataValidator._current_column: the cursor
    ret,             \* outcome of the last call: [op, arg, raised, value]
    registered,      \* history: (rule, cursor) of every registration call
    pandas_major     \* major version of the pandas build underneath

vars == <<df, checks, current_column, ret, registered, pandas_major>>

-----------------------------------------------------------------------------
(* Bounds of the model *)

\* longest rule queue of a validator session
MaxChecks == 2
\* longest column enumerated exhaustively
MaxRows == 3
\* length of the long periodic columns (more rows than the example limit)
MaxLong == 7
MaxBiggest == 9
MaxSpare == 1

\* failing_examples keeps the first 5 entries: the [:5] slices
ExampleLimit == 5

-----------------------------------------------------------------------------
(* Cells *)

Num(n) == [t |-> "num", num |-> n, str |-> <<>>]
Str(s) == [t |-> "str", num |-> 0, str |-> s]
Ts(n)  == [t |-> "ts", num |-> n, str |-> <<>>]
NA     == [t |-> "na", num |-> 0, str |-> <<>>]

\* _current_column before any column() call
NONE == "<None>"

Min2(a, b) == IF a <= b THEN a ELSE b

-----------------------------------------------------------------------------
(* pandas primitives, as the validators use them *)

\* lst[:n]
\* the whole list where the first n entries are meant
Take_all(s, n) == s

Take(s, n) == SubSeq(s, 1, Min2(n, Len(s)))

\* mask.sum()
MaskSum(mask) == Cardinality({i \in DOMAIN mask : mask[i]})

\* series[mask].tolist(): the entries whose mask is set, in row order
RECURSIVE SelectFrom(_, _, _)
SelectFrom(s, mask, i) ==
    IF i > Len(s) THEN <<>>
    ELSE (IF mask[i] THEN <<s[i]>> ELSE <<>>) \o SelectFrom(s, mask, i + 1)

Select(s, mask) == SelectFrom(s, mask, 1)

\* df[mask].index.tolist(): the identifiers of the rows whose mask is set
RECURSIVE IndexFrom(_, _)
IndexFrom(mask, i) ==
    IF i > Len(mask) THEN <<>>
    ELSE (IF mask[i] THEN <<Num(i - 1)>> ELSE <<>>) \o IndexFrom(mask, i + 1)

\* row numbers counted from 1 where the index counts from 0
IndexOf_one_based(mask) ==
    [k \in 1..Len(IndexFrom(mask, 1)) |-> Num(IndexFrom(mask, 1)[k].num + 1)]

IndexOf(mask) == IndexFrom(mask, 1)

\* series.isna() / series.notna()
isna(vals) == [i \in DOMAIN vals |-> vals[i].t = "na"]
notna(vals) == [i \in DOMAIN vals |-> vals[i].t # "na"]

\* series.fillna(v)
\* missing entries filled with 0 whatever the fill value
fillna_zero(vals, v) == [i \in DOMAIN vals |-> IF vals[i].t = "na" THEN Num(0) ELSE vals[i]]

fillna(vals, v) == [i \in DOMAIN vals |-> IF vals[i].t = "na" THEN v ELSE vals[i]]

\* series.isin(allowed)
isin(vals, allowed) == [i \in DOMAIN vals |-> vals[i] \in allowed]

\* duplicated(keep=False) where keep='first' is meant
duplicated_any(vals) ==
    [i \in DOMAIN vals |-> \E j \in DOMAIN vals : j # i /\ vals[j] = vals[i]]

\* series.duplicated(keep='first'): every occurrence after a value's first
duplicated_first(vals) ==
    [i \in DOMAIN vals |-> \E j \in 1..(i - 1) : vals[j] = vals[i]]

\* series.duplicated(keep=False): every occurrence of a value that repeats
duplicated_all(vals) ==
    [i \in DOMAIN vals |-> \E j \in DOMAIN vals : j # i /\ vals[j] = vals[i]]

\* the offending rows without .unique()
unique_off(vals) == vals

\* series.unique(): the distinct values in order of first appearance
unique(vals) == Select(vals, [i \in DOMAIN vals |-> ~duplicated_first(vals)[i]])

\* pd.api.types.is_numeric_dtype
is_numeric_dtype(col) == col.dtype \in {"int64", "float64", "bool"}

\* < 0 where <= 0 is meant, <= m where < m is meant
lt_zero(vals) == [i \in DOMAIN vals |-> vals[i].t = "num" /\ vals[i].num < 0]
lt_or_equal(vals, m) == [i \in DOMAIN vals |-> vals[i].t = "num" /\ vals[i].num <= m]

\* the numeric comparisons; a comparison with NaN is False
le_zero(vals) == [i \in DOMAIN vals |-> vals[i].t = "num" /\ vals[i].num <= 0]
lt(vals, m) == [i \in DOMAIN vals |-> vals[i].t = "num" /\ vals[i].num < m]
gt(vals, m) == [i \in DOMAIN vals |-> vals[i].t = "num" /\ vals[i].num > m]

\* str(value) for the values a column holds, as series.astype(str) gives it
Digit(d) == <<"0", "1", "2", "3", "4", "5", "6", "7", "8", "9">>[d + 1]

RECURSIVE NatStr(_)
NatStr(n) == IF n < 10 THEN <<Digit(n)>> ELSE NatStr(n \div 10) \o <<Digit(n % 10)>>

astype_str(v) ==
    CASE v.t = "str" -> v.str
      [] v.t = "na"  -> <<"n", "a", "n">>
      [] OTHER       -> IF v.num < 0 THEN <<"-">> \o NatStr(-v.num) ELSE NatStr(v.num)

\* re.match of a pattern without metacharacters: the text starts with it
str_match(text, pattern) ==
    Len(text) >= Len(pattern) /\ SubSeq(text, 1, Len(pattern)) = pattern

-----------------------------------------------------------------------------
(* ValidationResult and the deferred check of each rule *)

ValidationResult(name, col, passed, message, failing, examples) ==
    [check_name |-> name, column |-> col, passed |-> passed,
     message |-> message, failing_count |-> failing,
     failing_examples |-> examples]

\* the result of a numeric-only rule on a column that is not numeric;
\* message, failing_count and failing_examples keep the dataclass defaults
\* but for the message
NotNumeric(name, col) ==
    ValidationResult(name, col, FALSE, "Column '{col}' is not numeric", 0, <<>>)

is_not_null_check(table, col) ==
    LET series == table[col].vals
        null_mask == isna(series)
        failing == MaskSum(null_mask)
    IN ValidationResult("is_not_null", col, failing = 0,
            IF failing > 0 THEN "Found {failing} null values" ELSE "No null values",
            failing, Take(IndexOf(null_mask), ExampleLimit))

is_positive_check(table, col) ==
    LET series == table[col].vals
        non_positive_mask == le_zero(fillna(series, Num(1)))
        failing == MaskSum(non_positive_mask)
    IN IF ~is_numeric_dtype(table[col]) THEN NotNumeric("is_positive", col)
       ELSE ValidationResult("is_positive", col, failing = 0,
            IF failing > 0 THEN "Found {failing} non-positive values"
                           ELSE "All values positive",
            failing, Take(Select(series, non_positive_mask), ExampleLimit))

is_in_check(table, col, allowed_values) ==
    LET series == table[col].vals
        invalid_mask == [i \in DOMAIN series |->
                            ~isin(series, allowed_values)[i] /\ notna(series)[i]]
        failing == MaskSum(invalid_mask)
    IN ValidationResult("is_in", col, failing = 0,
            IF failing > 0 THEN "Found {failing} values not in allowed list"
                           ELSE "All values valid",
            failing, Take(unique(Select(series, invalid_mask)), ExampleLimit))

matches_check(table, col, pattern) ==
    LET series == table[col].vals
        match_mask == [i \in DOMAIN series |-> str_match(astype_str(series[i]), pattern)]
        non_match_mask == [i \in DOMAIN series |-> ~match_mask[i] /\ notna(series)[i]]
        failing == MaskSum(non_match_mask)
    IN ValidationResult("matches", col, failing = 0,
            IF failing > 0 THEN "Found {failing} values not matching pattern"
                           ELSE "All values match pattern",
            failing, Take(Select(series, non_match_mask), ExampleLimit))

min_value_check(table, col, minimum) ==
    LET series == table[col].vals
        below_min_mask == lt(series, minimum)
        failing == MaskSum(below_min_mask)
    IN IF ~is_numeric_dtype(table[col]) THEN NotNumeric("min_value", col)
       ELSE ValidationResult("min_value", col, failing = 0,
            IF failing > 0 THEN "Found {failing} values below {minimum}"
                           ELSE "All values >= {minimum}",
            failing, Take(Select(series, below_min_mask), ExampleLimit))

max_value_check(table, col, maximum) ==
    LET series == table[col].vals
        above_max_mask == gt(series, maximum)
        failing == MaskSum(above_max_mask)
    IN IF ~is_numeric_dtype(table[col]) THEN NotNumeric("max_value", col)
       ELSE ValidationResult("max_value", col, failing = 0,
            IF failing > 0 THEN "Found {failing} values above {maximum}"
                           ELSE "All values <= {maximum}",
            failing, Take(Select(series, above_max_mask), ExampleLimit))

is_unique_check(table, col) ==
    LET series == table[col].vals
        duplicate_mask == duplicated_all(series)
        failing == MaskSum(duplicate_mask)
    IN ValidationResult("is_unique", col, failing = 0,
            IF failing > 0 THEN "Found {failing} duplicate values"
                           ELSE "All values unique",
            failing, Take(Select(series, duplicated_first(series)), ExampleLimit))

-----------------------------------------------------------------------------
(* The validator session: DataValidator *)

\* a name that is no column of the table
Absent == "nope"

\* what a check closure captures: col, and the argument of its rule
Closure(col, minimum, allowed_values, pattern) ==
    [col |-> col, bound |-> minimum, allowed_values |-> allowed_values,
     pattern |-> pattern]

NoArg(col) == Closure(col, 0, {}, <<>>)

\* one (check_name, self._current_column, check_fn) tuple of the queue
Check(check_name, column, fn) ==
    [check_name |-> check_name, column |-> column, fn |-> fn]

\* _add_check that re-binds every queued rule to the cursor as it is now
add_check_late(q, check_name, cursor, fn) ==
    [i \in 1..Len(q) |-> Check(q[i].check_name, cursor, [q[i].fn EXCEPT !.col = cursor])]
        \o <<Check(check_name, cursor, [fn EXCEPT !.col = cursor])>>

\* _add_check: append the tuple, bound to the cursor as it is now
add_check(q, check_name, cursor, fn) ==
    Append(q, Check(check_name, cursor, fn))

\* check_fn(): the body of the closure a rule method defined
check_fn(c, table) ==
    CASE c.check_name = "is_not_null" -> is_not_null_check(table, c.fn.col)
      [] c.check_name = "is_positive" -> is_positive_check(table, c.fn.col)
      [] c.check_name = "is_in"       -> is_in_check(table, c.fn.col, c.fn.allowed_values)
      [] c.check_name = "matches"     -> matches_check(table, c.fn.col, c.fn.pattern)
      [] c.check_name = "min_value"   -> min_value_check(table, c.fn.col, c.fn.bound)
      [] c.check_name = "max_value"   -> max_value_check(table, c.fn.col, c.fn.bound)
      [] c.check_name = "is_unique"   -> is_unique_check(table, c.fn.col)

\* self.df[col] of a closure raises KeyError when col is no column
KeyErrors(q, table) == {i \in 1..Len(q) : q[i].fn.col \notin DOMAIN table}

\* what the last call was, its name argument, what it raised, what it returned
Outcome(op, arg, raised, value) ==
    [op |-> op, arg |-> arg, raised |-> raised, value |-> value]

\* run() that stops at the first check that does not pass
run_checks_stop(q, table) ==
    LET all == [i \in 1..Len(q) |-> check_fn(q[i], table)]
        failed == {i \in 1..Len(q) : ~all[i].passed}
        last == IF failed = {} THEN Len(q)
                ELSE CHOOSE i \in failed : \A j \in failed : i <= j
    IN IF KeyErrors(q, table) # {} THEN Outcome("run", "", "KeyError", <<>>)
       ELSE IF q = <<>> THEN Outcome("run", "", "", <<>>)
       ELSE Outcome("run", "", "", SubSeq(all, 1, last))

\* run(): [check_fn() for _, _, check_fn in self._checks]
run_checks(q, table) ==
    IF KeyErrors(q, table) # {} THEN Outcome("run", "", "KeyError", <<>>)
    ELSE IF q = <<>> THEN Outcome("run", "", "", <<>>)
    ELSE Outcome("run", "", "", [i \in 1..Len(q) |-> check_fn(q[i], table)])

\* arguments the rule methods are called with
Minimums == {0, 1}
AllowedSets == {{}, {Num(1), Num(2)}, {Str(<<"a", "b">>)}}
Patterns == {<<"a">>}
\* those of the multi-rule sessions
SessionBounds == {1}
SessionAllowed == {{Num(1), Num(2)}}

\* column() that moves the cursor before it looks the name up
column_eager(name) ==
    /\ name \in DOMAIN df \cup {Absent}
    /\ current_column' = name
    /\ ret' = IF name \notin DOMAIN df
              THEN Outcome("column", name, "ValueError", <<>>)
              ELSE Outcome("column", name, "", <<>>)
    /\ UNCHANGED <<df, checks, registered, pandas_major>>

column(name) ==
    /\ name \in DOMAIN df \cup {Absent}
    /\ IF name \notin DOMAIN df
       THEN /\ ret' = Outcome("column", name, "ValueError", <<>>)
            /\ UNCHANGED current_column
       ELSE /\ current_column' = name
            /\ ret' = Outcome("column", name, "", <<>>)
    /\ UNCHANGED <<df, checks, registered, pandas_major>>

Register(check_name, fn) ==
    /\ Len(checks) < MaxChecks
    /\ checks' = add_check(checks, check_name, current_column, fn)
    /\ ret' = Outcome(check_name, "", "", <<>>)
    /\ registered' = Append(registered, [check_name |-> check_name, cursor |-> current_column])
    /\ UNCHANGED <<df, current_column, pandas_major>>

is_not_null == Register("is_not_null", NoArg(current_column))

is_positive == Register("is_positive", NoArg(current_column))

is_in(allowed_values) ==
    Register("is_in", Closure(current_column, 0, allowed_values, <<>>))

matches(pattern) == Register("matches", Closure(current_column, 0, {}, pattern))

min_value(minimum) == Register("min_value", Closure(current_column, minimum, {}, <<>>))

max_value(maximum) == Register("max_value", Closure(current_column, maximum, {}, <<>>))

is_unique == Register("is_unique", NoArg(current_column))

\* run() that consumes the queue it executed
run_consuming ==
    /\ ret' = run_checks(checks, df)
    /\ checks' = <<>>
    /\ UNCHANGED <<df, current_column, registered, pandas_major>>

run ==
    /\ ret' = run_checks(checks, df)
    /\ UNCHANGED <<df, checks, current_column, registered, pandas_major>>

-----------------------------------------------------------------------------
(* The profiler: DataProfiler *)

NonMissing(vals) == {vals[i] : i \in {j \in DOMAIN vals : vals[j].t # "na"}}

\* the percentage cut off after 2 decimals where it is rounded
RoundDiv_floor(a, b) == a \div b

\* round(x, 2) of the percentage 100 * k / n, in hundredths of a percent
\* (ties to even); the mean of an empty series is NaN
RoundDiv(a, b) ==
    LET q == a \div b
        r == a % b
    IN IF 2 * r > b \/ (2 * r = b /\ q % 2 = 1) THEN q + 1 ELSE q

null_percentage(k, n) ==
    IF n = 0 THEN [nan |-> TRUE, x100 |-> 0]
    ELSE [nan |-> FALSE, x100 |-> RoundDiv(10000 * k, n)]

\* ptypes.is_string_dtype(series): an object column counts as text; from
\* pandas 2 on only when every element is a str
is_string_dtype(col, major) ==
    /\ col.dtype = "object"
    /\ major >= 2 => \A i \in DOMAIN col.vals : col.vals[i].t = "str"

is_categorical_dtype(col) == col.dtype = "category"

is_partitionable_dtype(col, major) ==
    \/ is_string_dtype(col, major)
    \/ is_categorical_dtype(col)
    \/ col.dtype = "int64"
    \/ col.dtype = "float64"
    \/ col.dtype = "bool"

\* the keys of the dict profile_column returns, and those whose value is
\* None
NumericKeys == {"min", "max", "mean", "median", "std"}
LengthKeys == {"min_length", "max_length", "avg_length"}

\* the length statistics emitted for an object column that holds no value
string_stats_unguarded(series, major) ==
    IF is_string_dtype(series, major) \/ series.dtype = "object"
    THEN LengthKeys ELSE {}

\* the keys the string-statistics block adds: none when dropna() leaves
\* nothing
string_stats(series, major) ==
    LET non_null == Select(series.vals, notna(series.vals))
    IN IF is_string_dtype(series, major) \/ series.dtype = "object"
       THEN (IF Len(non_null) > 0 THEN LengthKeys ELSE {})
       ELSE {}

profile(table, name, major) ==
    LET series == table[name]
        n == Len(series.vals)
        k == MaskSum(isna(series.vals))
        all_na == \A i \in DOMAIN series.vals : series.vals[i].t = "na"
        numeric == is_numeric_dtype(series)
    IN [column |-> name,
        dtype |-> series.dtype,
        count |-> n,
        null_count |-> k,
        null_percentage |-> null_percentage(k, n),
        unique_count |-> Cardinality(NonMissing(series.vals)),
        keys |-> (IF numeric THEN NumericKeys ELSE {})
                    \cup string_stats(series, major),
        none |-> IF numeric /\ all_na THEN {"mean", "median", "std"} ELSE {}]

\* the two score contributions of partition_recommendations; the skew
\* factor is biggest / mean of value_counts(normalize=True), that is
\* biggest_count * Cardinality / non_missing, and NaN (every comparison
\* False) when the column holds no value
skew_score(biggest_count, Cardinality_, non_missing) ==
    IF non_missing > 0 /\ biggest_count * Cardinality_ > 5 * non_missing THEN -1
    ELSE IF non_missing > 0 /\ biggest_count * Cardinality_ > 2 * non_missing THEN 0
    ELSE 1

\* the medium band starting above 100 distinct values
cardinality_score_above(Cardinality_) ==
    IF Cardinality_ <= 100 THEN 0
    ELSE IF Cardinality_ < 1000 THEN 1
    ELSE -1

cardinality_score(Cardinality_) ==
    IF Cardinality_ < 100 THEN 0
    ELSE IF Cardinality_ < 1000 THEN 1
    ELSE -1

Occurrences(vals, v) == Cardinality({i \in DOMAIN vals : vals[i] = v})

BiggestCount(vals) ==
    IF NonMissing(vals) = {} THEN 0
    ELSE CHOOSE c \in 1..Len(vals) :
            /\ \E v \in NonMissing(vals) : Occurrences(vals, v) = c
            /\ \A v \in NonMissing(vals) : Occurrences(vals, v) <= c

Report(lines, scored, score) == [lines |-> lines, scored |-> scored, score |-> score]

\* the observations and the score partition_recommendations prints for a
\* column whose most frequent value occurs biggest_count times among
\* non_missing values, Cardinality_ of them distinct
recommendation(biggest_count, Cardinality_, non_missing) ==
    LET skew == skew_score(biggest_count, Cardinality_, non_missing)
        card == cardinality_score(Cardinality_)
    IN Report(<<"is of type", "Observations:", "WARNING: Null values",
                "Unique entries", "Total entries", "Biggest entry proportion",
                "Skew factor", "Reccomentation:",
                CASE skew = -1 -> "highly skewed. Score -1"
                  [] skew = 0  -> "moderately skewed. Score +0"
                  [] OTHER     -> "low skew. Score +1",
                CASE card = 0 -> "low cardinality. Score +0"
                  [] card = 1 -> "medium cardinality. Score +1"
                  [] OTHER    -> "high cardinality. Score -1",
                "reccomended score">>, TRUE, skew + card)

\* what partition_recommendations prints: the lines, and the final score
\* when one is printed.
\* `not self.is_partitionable_dtype(...) is False` is `not (... is False)`:
\* the notice branch is taken when the dtype IS partitionable
partition_report(table, name, major) ==
    LET series == table[name]
        profile_results == profile(table, name, major)
        Cardinality_ == profile_results.unique_count
        non_missing == profile_results.count - profile_results.null_count
    IN IF ~(is_partitionable_dtype(series, major) = FALSE)
       THEN Report(<<"Not recommended for partitioning.">>, FALSE, 0)
       ELSE recommendation(BiggestCount(series.vals), Cardinality_, non_missing)

profile_column(name) ==
    /\ name \in DOMAIN df \cup {Absent}
    /\ ret' = IF name \notin DOMAIN df
              THEN Outcome("profile_column", name, "KeyError", <<>>)
              ELSE Outcome("profile_column", name, "", profile(df, name, pandas_major))
    /\ UNCHANGED <<df, checks, current_column, registered, pandas_major>>

partition_recommendations(name) ==
    /\ name \in DOMAIN df \cup {Absent}
    /\ ret' = IF name \notin DOMAIN df
              THEN Outcome("partition_recommendations", name, "KeyError", <<>>)
              ELSE Outcome("partition_recommendations", name, "",
                           partition_report(df, name, pandas_major))
    /\ UNCHANGED <<df, checks, current_column, registered, pandas_major>>

\* the numbers of distinct values drawn for a large column: both sides of
\* the cardinality bands at 100 and 1000, and small ones
Cardinalities == {1, 2, 4, 10, 99, 100, 999, 1000}

\* partition_recommendations on a timestamp column given by its value
\* distribution: Cardinality_ distinct values, the most frequent one
\* biggest_count times, every other one at least once, spare more rows
\* among the other values, none missing
partition_recommendations_of(biggest_count, Cardinality_, spare) ==
    LET non_missing == biggest_count + (Cardinality_ - 1) + spare
        report == recommendation(biggest_count, Cardinality_, non_missing)
    IN /\ df["c"].dtype = "datetime64[ns]"
       /\ spare <= (Cardinality_ - 1) * (biggest_count - 1)
       /\ ret' = Outcome("recommendation", "c", "",
                         [lines |-> report.lines, scored |-> report.scored,
                          score |-> report.score, biggest_count |-> biggest_count,
                          unique_count |-> Cardinality_, non_missing |-> non_missing])
       /\ UNCHANGED <<df, checks, current_column, registered, pandas_major>>

-----------------------------------------------------------------------------
(* Tables *)

Column(dtype, vals) == [dtype |-> dtype, vals |-> vals]

SeqsUpTo(S, lo, hi) == UNION {[1..n -> S] : n \in lo..hi}

HasNA(vals) == \E i \in DOMAIN vals : vals[i].t = "na"

\* the tables of a validator session: an integer column and a text column
IdColumns ==
    {Column("int64", <<Num(1), Num(2), Num(2)>>),
     Column("int64", <<Num(-1), Num(0), Num(3)>>)}

NameColumns ==
    {Column("object", <<Str(<<"a", "b">>), NA, Str(<<"a", "b">>)>>),
     Column("object", <<Str(<<"a">>), Str(<<"b">>), Str(<<"a", "b">>)>>)}

SessionTables ==
    {[n \in {"id", "name"} |-> IF n = "id" THEN i ELSE m] :
        i \in IdColumns, m \in NameColumns}

\* the columns a single rule or profile is applied to
NumVals == {Num(-1), Num(0), Num(1), NA}
TextVals == {Str(<<"a">>), Str(<<"a", "b">>), NA}

ShortNumeric ==
    {Column("float64", v) : v \in SeqsUpTo(NumVals, 1, MaxRows)}
        \cup {Column("int64", v) : v \in SeqsUpTo(NumVals \ {NA}, 1, MaxRows)}

ShortText == {Column("object", v) : v \in SeqsUpTo(TextVals, 1, MaxRows)}

\* MaxLong rows cycling through p consecutive integers from base on, with
\* one missing entry at row k when k > 0
Periodic(p, base, k) ==
    Column(IF k > 0 THEN "float64" ELSE "int64",
           [i \in 1..MaxLong |-> IF i = k THEN NA ELSE Num(base + ((i - 1) % p))])

LongColumns ==
    {Periodic(p, base, k) : p \in 1..MaxLong, base \in {1 - MaxLong, 0}, k \in {0, 2}}
        \cup {Column("float64", [i \in 1..MaxLong |-> NA]),
              Column("object", [i \in 1..MaxLong |-> NA]),
              Column("float64", [i \in 1..MaxLong |-> IF i = 1 THEN Num(1) ELSE NA])}

OtherColumns ==
    {Column("bool", v) : v \in SeqsUpTo({Num(0), Num(1)}, 1, 2)}
        \cup {Column("category", v) : v \in SeqsUpTo(TextVals, 1, 2)}
        \cup {Column("datetime64[ns]", v) : v \in SeqsUpTo({Ts(1), Ts(2), NA}, 1, 2)}

Columns == ShortNumeric \cup ShortText \cup LongColumns \cup OtherColumns

ColumnTables == {[n \in {"c"} |-> c] : c \in Columns}

-----------------------------------------------------------------------------
(* The validator and profiler over one table, call by call *)

Init ==
    /\ df \in SessionTables
    /\ checks = <<>>
    /\ current_column = NONE
    /\ ret = Outcome("__init__", "", "", <<>>)
    /\ registered = <<>>
    /\ pandas_major \in {1, 2}

\* the caller replaces the contents of the table between two calls
mutate_table ==
    /\ df' \in SessionTables \ {df}
    /\ ret' = Outcome("external", "", "", <<>>)
    /\ UNCHANGED <<checks, current_column, registered, pandas_major>>

Next ==
    \/ \E name \in {"id", "name", Absent} : column(name)
    \/ is_not_null
    \/ is_positive
    \/ \E allowed_values \in SessionAllowed : is_in(allowed_values)
    \/ \E pattern \in Patterns : matches(pattern)
    \/ \E minimum \in SessionBounds : min_value(minimum)
    \/ \E maximum \in SessionBounds : max_value(maximum)
    \/ is_unique
    \/ run
    \/ \E name \in {"id", "name", Absent} : profile_column(name)
    \/ mutate_table

Spec == Init /\ [][Next]_vars

-----------------------------------------------------------------------------
(* One rule on one column: DataValidator(df).column("c").<rule>().run() *)

ColumnInit ==
    /\ df \in ColumnTables
    /\ checks = <<>>
    /\ current_column = NONE
    /\ ret = Outcome("__init__", "", "", <<>>)
    /\ registered = <<>>
    /\ pandas_major \in {1, 2}

\* a fresh validator on the table, the cursor set, one rule queued (its
\* closure capturing the cursor) and run
chain(check_name, minimum, allowed_values, pattern) ==
    /\ current_column' = "c"
    /\ checks' = add_check(<<>>, check_name, current_column',
                           Closure(current_column', minimum, allowed_values, pattern))
    /\ registered' = <<[check_name |-> check_name, cursor |-> current_column']>>
    /\ ret' = run_checks(checks', df)
    /\ UNCHANGED <<df, pandas_major>>

ColumnNext ==
    \/ chain("is_not_null", 0, {}, <<>>)
    \/ chain("is_positive", 0, {}, <<>>)
    \/ \E allowed_values \in AllowedSets : chain("is_in", 0, allowed_values, <<>>)
    \/ \E pattern \in Patterns : chain("matches", 0, {}, pattern)
    \/ \E minimum \in Minimums : chain("min_value", minimum, {}, <<>>)
    \/ \E maximum \in Minimums : chain("max_value", maximum, {}, <<>>)
    \/ chain("is_unique", 0, {}, <<>>)
    \/ profile_column("c")
    \/ partition_recommendations("c")

ColumnSpec == ColumnInit /\ [][ColumnNext]_vars

-----------------------------------------------------------------------------
(* The partition score over the columns that can reach it *)

\* the kinds is_partitionable_dtype can reject: timestamps, and under
\* pandas 2 an object column that holds a missing value
ScoreInit ==
    /\ ColumnInit
    /\ df["c"].dtype \in {"datetime64[ns]", "object"}

ScoreNext ==
    \/ partition_recommendations("c")
    \/ \E biggest_count \in 1..MaxBiggest, Cardinality_ \in Cardinalities, spare \in 0..MaxSpare :
            partition_recommendations_of(biggest_count, Cardinality_, spare)

ScoreSpec == ScoreInit /\ [][ScoreNext]_vars

-----------------------------------------------------------------------------
(* Claims about the validator session (specification Spec) *)

RuleNames ==
    {"is_not_null", "is_unique", "is_positive", "min_value", "max_value",
     "is_in", "matches"}

NumericOnly == {"is_positive", "min_value", "max_value"}

Returned(op) == ret.op = op /\ ret.raised = ""

C2_NoUnboundRule ==
    \A i \in 1..Len(checks) : checks[i].column # NONE /\ checks[i].fn.col # NONE

\* C3: column(name) and profile_column(name) with a name that is no column
\* raise and return nothing; the failed column() leaves the cursor and the
\* queue as they were, and the next registration binds to that cursor.
C3_AbsentColumnRaises ==
    [][/\ (ret'.op \in {"column", "profile_column"} /\ ret'.arg \notin DOMAIN df)
            => /\ ret'.raised # ""
               /\ ret'.value = <<>>
               /\ checks' = checks
               /\ current_column' = current_column
       /\ (ret'.op \in {"column", "profile_column"} /\ ret'.arg \in DOMAIN df)
            => ret'.raised = ""
       /\ (ret.op = "column" /\ ret.raised # "" /\ Len(checks') = Len(checks) + 1)
            => /\ checks'[Len(checks')].column = current_column
               /\ checks'[Len(checks')].fn.col = current_column
               /\ SubSeq(checks', 1, Len(checks)) = checks
      ]_vars

\* a failed column() call in a session with a cursor and a queued rule
C3_Witness ==
    /\ ret.op = "column"
    /\ ret.arg = Absent
    /\ ret.raised = "ValueError"
    /\ current_column = "id"
    /\ Len(checks) >= 1

\* the rule at i is reached by run(): no closure before it raises
Reached(i) == \A j \in 1..i : checks[j].fn.col \in DOMAIN df

\* C4: a numeric-only rule that run() reaches on a non-numeric column does
\* not raise: its result is the not-numeric failure with no count and no
\* examples, and every rule queued after it is in the returned list.
C4_NotNumericNeverRaises ==
    ret.op = "run" =>
        \A i \in 1..Len(checks) :
            (/\ checks[i].check_name \in NumericOnly
             /\ Reached(i)
             /\ ~is_numeric_dtype(df[checks[i].fn.col]))
            => /\ ret.raised = ""
               /\ Len(ret.value) = Len(checks)
               /\ ret.value[i].passed = FALSE
               /\ ret.value[i].message = "Column '{col}' is not numeric"
               /\ ret.value[i].failing_count = 0
               /\ ret.value[i].failing_examples = <<>>
               /\ \A j \in (i + 1)..Len(checks) :
                    /\ ret.value[j].check_name = checks[j].check_name
                    /\ ret.value[j] = check_fn(checks[j], df)

\* is_positive on the text column, a second rule behind it, both reported
C4_Witness ==
    /\ Returned("run")
    /\ Len(checks) = 2
    /\ checks[1].check_name = "is_positive"
    /\ checks[1].column = "name"
    /\ Len(ret.value) = 2
    /\ ret.value[2].check_name = "is_not_null"

\* C5: a registration call executes nothing; run() leaves the queue, the
\* cursor and the table as they are and returns the result of every queued
\* rule on the table as it is at the call; a run() right after a run()
\* returns the same list.
C5_RunIsLazyAndRepeatable ==
    [][/\ ret'.op \in RuleNames
            => /\ ret'.value = <<>>
               /\ df' = df
               /\ Len(checks') = Len(checks) + 1
       /\ ret'.op = "run"
            => /\ checks' = checks
               /\ current_column' = current_column
               /\ df' = df
               /\ ret'.raised = ""
                    => /\ Len(ret'.value) = Len(checks)
                       /\ \A i \in 1..Len(checks) :
                            ret'.value[i] = check_fn(checks[i], df')
               /\ ret.op = "run" => ret' = ret
      ]_vars

\* run() on a queue whose result is not what another table would give
C5_Witness ==
    /\ Returned("run")
    /\ Len(ret.value) >= 1
    /\ \E t \in SessionTables : run_checks(checks, t) # ret

-----------------------------------------------------------------------------
(* Claims about one rule on one column (specification ColumnSpec) *)

\* the last call was run() of the single queued rule `name`
Ran(name) == Returned("run") /\ Len(checks) = 1 /\ checks[1].check_name = name

\* the rank of row i among the rows R, in row order
Rank(R, i) == Cardinality({j \in R : j <= i})

\* ex holds the values of the first ExampleLimit rows of R, in row order
FirstOf(vals, R, ex) ==
    /\ Len(ex) = Min2(ExampleLimit, Cardinality(R))
    /\ \A i \in R : Rank(R, i) <= ExampleLimit => ex[Rank(R, i)] = vals[i]

\* the rows whose value occurs in another row too
InDuplicateGroup(vals) ==
    {i \in DOMAIN vals : \E j \in DOMAIN vals : j # i /\ vals[j] = vals[i]}

\* the first row of every duplicate group
GroupFirsts(vals) ==
    {i \in InDuplicateGroup(vals) : \A j \in 1..(i - 1) : vals[j] # vals[i]}

\* the rows whose value already occurred in an earlier row
Repeats(vals) == {i \in DOMAIN vals : \E j \in 1..(i - 1) : vals[j] = vals[i]}

\* C6 as stated: is_unique fails exactly when a value occurs more than
\* once, counts the rows of all duplicate groups, and lists one value per
\* duplicate group (its first occurrence), in row order, at most 5.
C6_UniqueListsGroupsOnce ==
    Ran("is_unique") =>
        LET vals == df["c"].vals
            r == ret.value[1]
        IN /\ r.passed = (InDuplicateGroup(vals) = {})
           /\ r.failing_count = Cardinality(InDuplicateGroup(vals))
           /\ FirstOf(vals, GroupFirsts(vals), r.failing_examples)

\* C6 amended: is_unique fails exactly when a value occurs more than once,
\* counts the rows of all duplicate groups, and lists the value of every
\* repeat (every row whose value occurred in an earlier row), in row order,
\* at most 5: a value that occurs k times is listed k - 1 times.
C6_UniqueListsRepeats ==
    Ran("is_unique") =>
        LET vals == df["c"].vals
            r == ret.value[1]
        IN /\ r.passed = (InDuplicateGroup(vals) = {})
           /\ r.failing_count = Cardinality(InDuplicateGroup(vals))
           /\ FirstOf(vals, Repeats(vals), r.failing_examples)

\* one value in every row: more repeats than the example limit
C6_Witness ==
    /\ Ran("is_unique")
    /\ Cardinality(GroupFirsts(df["c"].vals)) = 1
    /\ ret.value[1].failing_count > ExampleLimit + 1
    /\ Len(ret.value[1].failing_examples) = ExampleLimit

\* the kinds the notice is claimed to spare
PartitionableKinds == {"object", "category", "int64", "float64", "bool"}

\* C7: partition_recommendations prints the notice and no score exactly
\* when the kind of the column is not text, categorical, integer, float or
\* boolean; for a column of one of these kinds it prints observations and
\* the score.
C7_NoticeIffKindNotPartitionable ==
    Returned("partition_recommendations") =>
        LET notice == /\ ~ret.value.scored
                      /\ ret.value.lines = <<"Not recommended for partitioning.">>
        IN notice <=> df[ret.arg].dtype \notin PartitionableKinds

\* C8: on a numeric column is_positive fails exactly when a non-missing
\* value is <= 0, counts those rows and lists the first 5 of their values
\* in row order.
C8_PositiveCountsNonPositive ==
    (Ran("is_positive") /\ is_numeric_dtype(df["c"])) =>
        LET vals == df["c"].vals
            r == ret.value[1]
            offending == {i \in DOMAIN vals : vals[i].t # "na" /\ vals[i].num <= 0}
        IN /\ r.passed = (offending = {})
           /\ r.failing_count = Cardinality(offending)
           /\ FirstOf(vals, offending, r.failing_examples)

\* a missing value, a zero and more offending rows than the example limit
C8_Witness ==
    /\ Ran("is_positive")
    /\ is_numeric_dtype(df["c"])
    /\ HasNA(df["c"].vals)
    /\ \E i \in DOMAIN df["c"].vals : df["c"].vals[i] = Num(0)
    /\ ret.value[1].failing_count > ExampleLimit
    /\ Len(ret.value[1].failing_examples) = ExampleLimit

\* C9: on a numeric column min_value(m) fails exactly when a value is
\* below m and max_value(m) exactly when a value is above m; each counts
\* those rows and lists the first 5 of their values in row order.
C9_RangeIsStrict ==
    /\ (Ran("min_value") /\ is_numeric_dtype(df["c"])) =>
        LET vals == df["c"].vals
            r == ret.value[1]
            m == checks[1].fn.bound
            offending == {i \in DOMAIN vals : vals[i].t # "na" /\ vals[i].num < m}
        IN /\ r.passed = (offending = {})
           /\ r.failing_count = Cardinality(offending)
           /\ FirstOf(vals, offending, r.failing_examples)
    /\ (Ran("max_value") /\ is_numeric_dtype(df["c"])) =>
        LET vals == df["c"].vals
            r == ret.value[1]
            m == checks[1].fn.bound
            offending == {i \in DOMAIN vals : vals[i].t # "na" /\ vals[i].num > m}
        IN /\ r.passed = (offending = {})
           /\ r.failing_count = Cardinality(offending)
           /\ FirstOf(vals, offending, r.failing_examples)

\* min_value(m) on a column that holds m and more than 5 values below it
C9_Witness ==
    /\ Ran("min_value")
    /\ is_numeric_dtype(df["c"])
    /\ \E i \in DOMAIN df["c"].vals : df["c"].vals[i] = Num(checks[1].fn.bound)
    /\ ret.value[1].failing_count > ExampleLimit
    /\ Len(ret.value[1].failing_examples) = ExampleLimit

\* the rows of a non-missing value that is not allowed
NotAllowed(vals, allowed) ==
    {i \in DOMAIN vals : vals[i].t # "na" /\ vals[i] \notin allowed}

\* C10: is_in fails exactly when a non-missing value is not allowed,
\* counts every such row, and lists the distinct offending values in order
\* of first appearance, at most 5.
C10_IsInListsDistinct ==
    Ran("is_in") =>
        LET vals == df["c"].vals
            r == ret.value[1]
            offending == NotAllowed(vals, checks[1].fn.allowed_values)
            firsts == {i \in offending : \A j \in 1..(i - 1) : vals[j] # vals[i]}
        IN /\ r.passed = (offending = {})
           /\ r.failing_count = Cardinality(offending)
           /\ FirstOf(vals, firsts, r.failing_examples)

\* more than 5 distinct offending values, one of them on two rows
C10_Witness ==
    /\ Ran("is_in")
    /\ LET vals == df["c"].vals
           offending == NotAllowed(vals, checks[1].fn.allowed_values)
       IN /\ Cardinality({vals[i] : i \in offending}) > ExampleLimit
          /\ Cardinality(offending) > Cardinality({vals[i] : i \in offending})
    /\ Len(ret.value[1].failing_examples) = ExampleLimit


\* the rows of a missing value
MissingRows(vals) == {i \in DOMAIN vals : vals[i].t = "na"}

\* C11: is_not_null passes with count 0 exactly when no value is missing;
\* otherwise it counts the missing entries and lists the row identifiers
\* (not the values) of the first 5 of them in row order.
C11_NotNullListsRowIds ==
    Ran("is_not_null") =>
        LET vals == df["c"].vals
            r == ret.value[1]
            ids == [i \in DOMAIN vals |-> Num(i - 1)]
        IN /\ r.passed = (MissingRows(vals) = {})
           /\ r.failing_count = Cardinality(MissingRows(vals))
           /\ FirstOf(ids, MissingRows(vals), r.failing_examples)

\* more missing entries than the example limit, the first row present
C11_Witness ==
    /\ Ran("is_not_null")
    /\ df["c"].vals[1].t # "na"
    /\ ret.value[1].failing_count > ExampleLimit
    /\ Len(ret.value[1].failing_examples) = ExampleLimit


NumericKinds == {"int64", "float64", "bool"}

AllMissing(vals) == \A i \in DOMAIN vals : vals[i].t = "na"

C13_NullPercentage ==
    Returned("profile_column") =>
        LET vals == df[ret.arg].vals
            n == Len(vals)
            k == Cardinality(MissingRows(vals))
            prof == ret.value
            off == n * prof.null_percentage.x100 - 10000 * k
        IN n > 0 =>
            /\ prof.count = n
            /\ prof.null_count = k
            /\ prof.null_count <= prof.count
            /\ ~prof.null_percentage.nan
            /\ 2 * off <= n /\ 2 * off >= -n

\* 2 of 3 values missing: 66.67 per cent, rounded upwards
C13_Witness ==
    /\ Returned("profile_column")
    /\ ret.value.count = 3
    /\ ret.value.null_count = 2
    /\ ret.value.null_percentage.x100 = 6667


\* the report of a column whose most frequent value occurs c times among n
\* non-missing values, d of them distinct, is as the thresholds say: the
\* skew factor c * d / n against 5 and 2, d against 100 and 1000
ScoredAsClaimed(report, c, d, n) ==
    LET skew == IF c * d > 5 * n THEN -1 ELSE IF c * d > 2 * n THEN 0 ELSE 1
        card == IF d < 100 THEN 0 ELSE IF d < 1000 THEN 1 ELSE -1
    IN /\ report.scored
       /\ report.lines[9] = (CASE skew = -1 -> "highly skewed. Score -1"
                               [] skew = 0  -> "moderately skewed. Score +0"
                               [] OTHER     -> "low skew. Score +1")
       /\ report.lines[10] = (CASE card = 0 -> "low cardinality. Score +0"
                                [] card = 1 -> "medium cardinality. Score +1"
                                [] OTHER    -> "high cardinality. Score -1")
       /\ report.score = skew + card
       /\ report.score \in -2..2
       /\ report.score = 2 => (c * d <= 2 * n /\ 100 <= d /\ d < 1000)

C15_ResultShape ==
    Returned("run") =>
        \A i \in 1..Len(ret.value) :
            LET r == ret.value[i]
            IN /\ Len(r.failing_examples) <= 5
               /\ Len(r.failing_examples) <= r.failing_count
               /\ r.passed => (r.failing_count = 0 /\ r.failing_examples = <<>>)
               /\ (~r.passed /\ r.failing_count = 0)
                    => /\ r.check_name \in NumericOnly
                       /\ df[r.column].dtype \notin NumericKinds

\* a rule that counts more rows than it lists
C15_Witness ==
    /\ Ran("is_positive")
    /\ ret.value[1].failing_count > 5
    /\ Len(ret.value[1].failing_examples) = 5

\* the table whose column c has its missing entries removed
Dropna(table) ==
    [n \in DOMAIN table |->
        [dtype |-> table[n].dtype,
         vals |-> SelectFrom(table[n].vals,
                             [i \in DOMAIN table[n].vals |-> table[n].vals[i].t # "na"], 1)]]

\* C16: is_positive, min_value, max_value and is_in (and matches) give the
\* verdict, count and examples they give on the column without its
\* missing entries; is_not_null counts every missing row; is_unique
\* counts the missing rows as one duplicate group when there are two or
\* more, and is as on the column without them when there is at most one.
C16_MissingNeverFails ==
    /\ \A name \in {"is_positive", "min_value", "max_value", "is_in", "matches"} :
        Ran(name) =>
            LET r == ret.value[1]
                bare == check_fn(checks[1], Dropna(df))
            IN /\ r.passed = bare.passed
               /\ r.failing_count = bare.failing_count
               /\ r.failing_examples = bare.failing_examples
    /\ Ran("is_not_null") =>
            /\ ret.value[1].failing_count = Cardinality(MissingRows(df["c"].vals))
            /\ check_fn(checks[1], Dropna(df)).passed
    /\ Ran("is_unique") =>
            LET r == ret.value[1]
                bare == check_fn(checks[1], Dropna(df))
                k == Cardinality(MissingRows(df["c"].vals))
            IN IF k >= 2
               THEN /\ ~r.passed
                    /\ r.failing_count = bare.failing_count + k
               ELSE /\ r.passed = bare.passed
                    /\ r.failing_count = bare.failing_count
                    /\ r.failing_examples = bare.failing_examples

\* is_positive on a column with a missing entry and a failing value
C16_Witness ==
    /\ Ran("is_positive")
    /\ MissingRows(df["c"].vals) # {}
    /\ ret.value[1].failing_count > 0
    /\ ret.value[1].failing_count = check_fn(checks[1], Dropna(df)).failing_count

====
